---- MODULE Spec2Model ----
(***************************************************************************)
(* The authentication gate of src/with-authentication-required.tsx: the    *)
(* higher-order component withAuthenticationRequired and its two variants, *)
(* withAuthenticationRedirectRequired and withAuthenticationPopupRequired. *)
(*                                                                         *)
(* A JavaScript value is a record with a "kind" field (undefined, string,  *)
(* boolean, function, element) or, for a plain object, a function from its *)
(* keys to its values.  An object reference is a pair of an identity and   *)
(* the object: React compares effect dependencies by identity (Object.is). *)
(***************************************************************************)
EXTENDS Integers, Sequences, FiniteSets, TLC

\* Bounds of the model.
MaxRenders == 3      \* renders of the gate in one run

----------------------------------------------------------------------------
\* JavaScript values

Undefined == [kind |-> "undefined"]

Str(s) == [kind |-> "string", val |-> s]

Bool(b) == [kind |-> "boolean", val |-> b]

EmptyObject == [k \in {} |-> Undefined]

\* obj[key], undefined when the object has no such key (or is undefined)
Get(obj, key) == IF obj # Undefined /\ key \in DOMAIN obj THEN obj[key] ELSE Undefined

\* { ...a, ...b }: spreading undefined adds nothing
Spread(a, b) ==
  LET A == IF a = Undefined THEN EmptyObject ELSE a
      B == IF b = Undefined THEN EmptyObject ELSE b
  IN  [k \in (DOMAIN A) \cup (DOMAIN B) |-> IF k \in DOMAIN B THEN B[k] ELSE A[k]]

\* window.location: pathname and search
Locations ==
  { [pathname |-> "/", search |-> ""],
    [pathname |-> "/profile", search |-> "?tab=1"] }

\* window.location when the component is wrapped
WrapLocation == [pathname |-> "/", search |-> ""]

\* Function values a caller may pass as returnTo: a constant function
\* (() => '/foo') and one that reads the navigation state.
FnConstFoo == [kind |-> "function", name |-> "constFoo"]

FnPathname == [kind |-> "function", name |-> "pathname"]

\* const defaultReturnTo = () => `${window.location.pathname}${window.location.search}`
defaultReturnTo == [kind |-> "function", name |-> "defaultReturnTo"]

\* Calling a function value with no arguments when window.location is loc
Call(f, loc) ==
  CASE f.name = "defaultReturnTo" -> Str(loc.pathname \o loc.search)
    [] f.name = "constFoo" -> Str("/foo")
    [] f.name = "pathname" -> Str(loc.pathname)

\* Elements a render can return
EmptyFragment == [kind |-> "element", type |-> "Fragment"]

RedirectingElement == [kind |-> "element", type |-> "Redirecting"]

ComponentElement(p) == [kind |-> "element", type |-> "Component", props |-> p]

\* const defaultOnRedirecting = () => <></>
defaultOnRedirecting == [kind |-> "function", name |-> "defaultOnRedirecting"]

CustomOnRedirecting == [kind |-> "function", name |-> "customOnRedirecting"]

CallOnRedirecting(f) ==
  IF f.name = "defaultOnRedirecting" THEN EmptyFragment ELSE RedirectingElement

----------------------------------------------------------------------------
\* The configuration object passed to withAuthenticationRequired

\* Truthiness of a flag value
Truthy(x) == x.kind = "boolean" /\ x.val

ReturnTos == { Undefined, Str("/baz"), FnConstFoo, FnPathname }
\* The returnTo an application writes into the configuration after wrapping
RewrittenReturnTo == Str("/new")

OnRedirectings == { Undefined, CustomOnRedirecting }

LoginOptionsSet ==
  { Undefined,
    [fragment |-> Str("foo")],
    [scope |-> Str("__test_scope__"),
     appState |-> [foo |-> Str("bar"), returnTo |-> Str("/old")]] }

PopupOptionsSet == { Undefined, [timeoutInSeconds |-> 50] }

\* The configurations of the model.  Redirect: every returnTo with every
\* loginOptions, and a custom onRedirecting with the defaults.  Popup: every
\* loginOptions with every popupOptions, and the options only the Redirect
\* gate reads (returnTo, onRedirecting) set or left out.
OptionsSet ==
  { o \in [ popup : { Undefined },
            returnTo : ReturnTos,
            onRedirecting : OnRedirectings,
            loginOptions : LoginOptionsSet,
            popupOptions : { Undefined } ] :
      o.onRedirecting # Undefined => o.returnTo = Undefined /\ o.loginOptions = Undefined }
  \cup
  { o \in [ popup : { Bool(TRUE) },
            returnTo : { Undefined, FnPathname },
            onRedirecting : OnRedirectings,
            loginOptions : LoginOptionsSet,
            popupOptions : PopupOptionsSet ] :
      /\ (o.returnTo = Undefined) <=> (o.onRedirecting = Undefined)
      /\ o.returnTo # Undefined => o.popupOptions = Undefined }

\* Props a parent may render the gate with
PropsSet == { [title |-> Str("a")], [title |-> Str("b")] }

\* AuthState as supplied by the authentication client
AuthStates == { "Loading", "Unauthenticated", "Authenticated" }

\* useAuth0(): the two flags the gate reads
isLoadingOf(auth) == auth = "Loading"

isAuthenticatedOf(auth) == auth = "Authenticated"

\* The AuthState the flags of a render stand for
ObservedOf(cl) ==
  IF cl.isAuthenticated THEN "Authenticated"
  ELSE IF cl.isLoading THEN "Loading" ELSE "Unauthenticated"

----------------------------------------------------------------------------
VARIABLES
  options,    \* the configuration object given at wrap time
  variant,    \* which gate withAuthenticationRequired returned
  authState,  \* the client's AuthState, as useAuth0() reports it
  loginFn,    \* identity of the login function reference useAuth0() returns
  location,   \* window.location
  phase,      \* "new" (not mounted yet), "mounted", "unmounted"
  pc,         \* "idle", or "effect": a committed render's effect has yet to run
  closure,    \* the values the last render captured
  deps,       \* the dependency array of the last render
  runEffect,  \* whether the last render's dependencies differed from the ones before
  output,     \* what the last render returned
  renders,    \* renders so far; also the identity of the last {} literal allocated
  calls,      \* the login calls received by the client, oldest first
  visitCalls  \* (history) login calls issued since the AuthState last changed

vars ==
  << options, variant, authState, loginFn, location, phase, pc, closure, deps,
     runEffect, output, renders, calls, visitCalls >>

\* const showPopup = (options) => options['popup']
showPopup(opts) == Truthy(opts.popup)

\* withAuthenticationRequired: the variant is chosen when the component is wrapped
withAuthenticationRequired(opts) ==
  IF showPopup(opts) THEN "Popup" ELSE "Redirect"

\* Mutant: the popup flag is read again at every render
VariantPerRender == withAuthenticationRequired(options)

\* The variant a render of the wrapped component runs
RenderedVariant == variant

\* Mutant: the configured loginOptions is copied into a new object per render
LoginOptionsRefPerRender(opts, n) ==
  [id |-> n,
   obj |-> IF opts.loginOptions = Undefined THEN EmptyObject ELSE opts.loginOptions]

\* const { loginOptions = {} } = options: a reference to the configured object
\* (identity 0), or to an object literal allocated by render number n
LoginOptionsRef(opts, n) ==
  IF opts.loginOptions = Undefined
    THEN [id |-> n, obj |-> EmptyObject]
    ELSE [id |-> 0, obj |-> opts.loginOptions]

\* Mutant: returnTo is resolved when the component renders, not when the effect
\* fires
ReturnToResolvedAtRender(opts) ==
  LET r == IF opts.returnTo = Undefined THEN defaultReturnTo ELSE opts.returnTo
  IN  IF r.kind = "function" THEN Call(r, location) ELSE r

\* const { returnTo = defaultReturnTo } = options
ReturnToOf(opts) ==
  IF opts.returnTo = Undefined THEN defaultReturnTo ELSE opts.returnTo

\* Mutant: the configured onRedirecting is dropped
OnRedirectingAlwaysDefault(opts) == defaultOnRedirecting

\* const { onRedirecting = defaultOnRedirecting } = options
OnRedirectingOf(opts) ==
  IF opts.onRedirecting = Undefined THEN defaultOnRedirecting ELSE opts.onRedirecting

\* What a render of the Redirect gate captures
RedirectClosure(opts, auth, fn, p, n) ==
  [ variant |-> "Redirect",
    isLoading |-> isLoadingOf(auth),
    isAuthenticated |-> isAuthenticatedOf(auth),
    login |-> fn,
    returnTo |-> ReturnToOf(opts),
    onRedirecting |-> OnRedirectingOf(opts),
    loginOptions |-> LoginOptionsRef(opts, n),
    props |-> p ]

\* What a render of the Popup gate captures
PopupClosure(opts, auth, fn, p, n) ==
  [ variant |-> "Popup",
    isLoading |-> isLoadingOf(auth),
    isAuthenticated |-> isAuthenticatedOf(auth),
    login |-> fn,
    loginOptions |-> LoginOptionsRef(opts, n),
    props |-> p ]

\* Mutant: isAuthenticated is missing from the dependency array
RedirectDepsWithoutAuth(cl) ==
  << Bool(cl.isLoading), cl.login, cl.loginOptions.id, cl.returnTo >>

\* Mutant: returnTo is not a dependency of the redirect effect
RedirectDepsWithoutReturnTo(cl) ==
  << Bool(cl.isLoading), Bool(cl.isAuthenticated), cl.login, cl.loginOptions.id >>

\* [isLoading, isAuthenticated, loginWithRedirect, loginOptions, returnTo]
RedirectDeps(cl) ==
  << Bool(cl.isLoading), Bool(cl.isAuthenticated), cl.login, cl.loginOptions.id,
     cl.returnTo >>

\* [isLoading, isAuthenticated, loginWithPopup, loginOptions]
PopupDeps(cl) ==
  << Bool(cl.isLoading), Bool(cl.isAuthenticated), cl.login, cl.loginOptions.id >>

\* Mutant: the wrapped component is rendered without the props
RedirectOutputWithoutProps(cl) ==
  IF cl.isAuthenticated THEN ComponentElement(EmptyObject)
  ELSE CallOnRedirecting(cl.onRedirecting)

\* return isAuthenticated ? <Component {...props} /> : onRedirecting()
RedirectOutput(cl) ==
  IF cl.isAuthenticated THEN ComponentElement(cl.props)
  ELSE CallOnRedirecting(cl.onRedirecting)

\* Mutant: the wrapped component is rendered as soon as loading is over
PopupOutputWhenLoaded(cl) ==
  IF ~cl.isLoading THEN ComponentElement(cl.props) ELSE EmptyFragment

\* Mutant: the Popup gate shows the configured onRedirecting() while gating
PopupOutputWithOnRedirecting(cl) ==
  IF cl.isAuthenticated THEN ComponentElement(cl.props)
                        ELSE CallOnRedirecting(OnRedirectingOf(options))

\* Mutant: the Popup gate never shows the wrapped component
PopupOutputNothing(cl) == EmptyFragment

\* return isAuthenticated ? <Component {...props} /> : <></>
PopupOutput(cl) ==
  IF cl.isAuthenticated THEN ComponentElement(cl.props) ELSE EmptyFragment

\* typeof returnTo === 'function' ? returnTo() : returnTo
ResolveReturnTo(returnTo, loc) ==
  IF returnTo.kind = "function" THEN Call(returnTo, loc) ELSE returnTo

\* Mutant: appState is replaced, not merged
RedirectOptsReplacingAppState(loginOptions, returnTo, loc) ==
  Spread(loginOptions, [appState |-> [returnTo |-> ResolveReturnTo(returnTo, loc)]])

\* const opts = { ...loginOptions, appState: { ...loginOptions.appState, returnTo: ... } }
RedirectOpts(loginOptions, returnTo, loc) ==
  Spread(loginOptions,
         [appState |-> Spread(Get(loginOptions, "appState"),
                              [returnTo |-> ResolveReturnTo(returnTo, loc)])])

\* Mutant: the effect does not wait for loading to end
EffectFiresWhileLoading(cl) == ~cl.isAuthenticated

\* if (isLoading || isAuthenticated) return
EffectFires(cl) == ~(cl.isLoading \/ cl.isAuthenticated)

\* The record of a login call: the client function, its positional arguments
\* and whether the promise is settled; and, as history, the AuthState the
\* calling render saw.
LoginCall(fn, args, cl) ==
  [ fn |-> fn, args |-> args, status |-> "pending", observed |-> ObservedOf(cl) ]

\* await loginWithRedirect(opts)
RedirectCall(cl) ==
  LoginCall("loginWithRedirect",
            << RedirectOpts(cl.loginOptions.obj, cl.returnTo, location) >>, cl)

\* Mutant: the Popup gate injects appState.returnTo as the Redirect gate does
PopupCallWithReturnTo(cl) ==
  LoginCall("loginWithPopup",
            << RedirectOpts(cl.loginOptions.obj, defaultReturnTo, location),
               options.popupOptions >>, cl)

\* await loginWithPopup(loginOptions, options.popupOptions)
PopupCall(cl) ==
  LoginCall("loginWithPopup", << cl.loginOptions.obj, options.popupOptions >>, cl)

\* useEffect compares each dependency with the one of the previous render
DepsChanged(old, new) == old = Undefined \/ old # new

TypeOK ==
  /\ options \in [ popup : { Undefined, Bool(TRUE) },
                   returnTo : ReturnTos \cup { RewrittenReturnTo },
                   onRedirecting : OnRedirectings,
                   loginOptions : LoginOptionsSet, popupOptions : PopupOptionsSet ]
  /\ variant \in { "Redirect", "Popup" }
  /\ authState \in AuthStates
  /\ loginFn \in 1..MaxRenders
  /\ location \in Locations
  /\ phase \in { "new", "mounted", "unmounted" }
  /\ pc \in { "idle", "effect" }
  /\ runEffect \in BOOLEAN
  /\ renders \in 0..MaxRenders
  /\ Len(calls) <= renders
  /\ visitCalls \in 0..Len(calls)

Init ==
  /\ options \in OptionsSet
  /\ variant = withAuthenticationRequired(options)
  /\ authState = "Loading"
  /\ loginFn = 1
  /\ location = WrapLocation
  /\ phase = "new"
  /\ pc = "idle"
  /\ closure = Undefined
  /\ deps = Undefined
  /\ runEffect = FALSE
  /\ output = Undefined
  /\ renders = 0
  /\ calls = << >>
  /\ visitCalls = 0

\* One render of the wrapped component with props p, AuthState auth and login
\* function fn: the body of WithAuthenticationRequired up to its return; the
\* effect is left to run after the commit.
RenderWith(opts, p, auth, fn) ==
  LET n == renders + 1
      cl == IF RenderedVariant = "Popup"
              THEN PopupClosure(opts, auth, fn, p, n)
              ELSE RedirectClosure(opts, auth, fn, p, n)
      d == IF RenderedVariant = "Popup" THEN PopupDeps(cl) ELSE RedirectDeps(cl)
  IN  /\ renders < MaxRenders
      /\ renders' = n
      /\ closure' = cl
      /\ deps' = d
      /\ runEffect' = DepsChanged(deps, d)
      /\ output' = IF RenderedVariant = "Popup" THEN PopupOutput(cl) ELSE RedirectOutput(cl)
      /\ pc' = "effect"

\* A render that reads the configuration object as it is now
Render(p, auth, fn) == RenderWith(options, p, auth, fn)

\* The application mounts the gate
Mount(p) ==
  /\ phase = "new"
  /\ phase' = "mounted"
  /\ Render(p, authState, loginFn)
  /\ UNCHANGED << options, variant, authState, loginFn, location, calls, visitCalls >>

\* The parent re-renders the gate (with the same or with other props)
Rerender(p) ==
  /\ phase = "mounted" /\ pc = "idle"
  /\ Render(p, authState, loginFn)
  /\ UNCHANGED << options, variant, authState, loginFn, location, phase, calls,
                  visitCalls >>

\* Mutant: the redirect effect assigns the merged appState to the caller's
\* loginOptions in place of building a new object
EffectWritingAppState ==
  /\ phase = "mounted" /\ pc = "effect"
  /\ pc' = "idle"
  /\ IF runEffect /\ EffectFires(closure)
       THEN /\ calls' = Append(calls, IF closure.variant = "Popup"
                                       THEN PopupCall(closure)
                                       ELSE RedirectCall(closure))
            /\ visitCalls' = visitCalls + 1
            /\ options' = IF closure.variant = "Popup" \/ options.loginOptions = Undefined
                            THEN options
                            ELSE [options EXCEPT !.loginOptions =
                                    RedirectOpts(@, closure.returnTo, location)]
       ELSE UNCHANGED << calls, visitCalls, options >>
  /\ UNCHANGED << variant, authState, loginFn, location, phase, closure,
                  deps, runEffect, output, renders >>

\* The effect of the last render runs after the commit
Effect ==
  /\ phase = "mounted" /\ pc = "effect"
  /\ pc' = "idle"
  /\ IF runEffect /\ EffectFires(closure)
       THEN /\ calls' = Append(calls, IF closure.variant = "Popup"
                                       THEN PopupCall(closure)
                                       ELSE RedirectCall(closure))
            /\ visitCalls' = visitCalls + 1
       ELSE UNCHANGED << calls, visitCalls >>
  /\ UNCHANGED << options, variant, authState, loginFn, location, phase, closure,
                  deps, runEffect, output, renders >>

\* The client's AuthState changes; a mounted gate re-renders with it
AuthChange(s) ==
  /\ s # authState
  /\ pc = "idle"
  /\ authState' = s
  /\ visitCalls' = 0
  /\ IF phase = "mounted"
       THEN Render(closure.props, s, loginFn)
       ELSE UNCHANGED << pc, closure, deps, runEffect, output, renders >>
  /\ UNCHANGED << options, variant, loginFn, location, phase, calls >>

\* useAuth0() returns a new login function reference: the gate re-renders
LoginFnChange ==
  /\ phase = "mounted" /\ pc = "idle"
  /\ loginFn' = loginFn + 1
  /\ Render(closure.props, authState, loginFn + 1)
  /\ UNCHANGED << options, variant, authState, location, phase, calls,
                  visitCalls >>

\* The user navigates: window.location changes
Navigate(l) ==
  /\ l # location
  /\ location' = l
  /\ UNCHANGED << options, variant, authState, loginFn, phase, pc, closure,
                  deps, runEffect, output, renders, calls, visitCalls >>

\* The application writes the configuration object after wrapping: it sets
\* the popup flag when it is not set, and deletes it when it is
SetPopupFlag ==
  /\ options' = [options EXCEPT !.popup = IF Truthy(@) THEN Undefined ELSE Bool(TRUE)]
  /\ UNCHANGED << variant, authState, loginFn, location, phase, pc, closure, deps,
                  runEffect, output, renders, calls, visitCalls >>

\* The application writes another returnTo into the configuration object and
\* the parent re-renders the gate, which reads the new value
SetReturnTo ==
  /\ phase = "mounted" /\ pc = "idle"
  /\ options.returnTo # RewrittenReturnTo
  /\ options' = [options EXCEPT !.returnTo = RewrittenReturnTo]
  /\ RenderWith(options', closure.props, authState, loginFn)
  /\ UNCHANGED << variant, authState, loginFn, location, phase, calls, visitCalls >>

\* Mutant: the gate catches a rejection and calls the login function again
SettleRetrying(i, outcome) ==
  /\ i \in 1..Len(calls)
  /\ calls[i].status = "pending"
  /\ calls' = IF outcome = "rejected" /\ Len(calls) < MaxRenders
                THEN Append([calls EXCEPT ![i].status = outcome], calls[i])
                ELSE [calls EXCEPT ![i].status = outcome]
  /\ UNCHANGED << options, variant, authState, loginFn, location, phase, pc, closure,
                  deps, runEffect, output, renders, visitCalls >>

\* The client settles the promise of login call i
Settle(i, outcome) ==
  /\ i \in 1..Len(calls)
  /\ calls[i].status = "pending"
  /\ calls' = [calls EXCEPT ![i].status = outcome]
  /\ UNCHANGED << options, variant, authState, loginFn, location, phase, pc, closure,
                  deps, runEffect, output, renders, visitCalls >>

\* Mutant: the effect has a cleanup that aborts the calls still in flight
UnmountAborting ==
  /\ phase = "mounted" /\ pc = "idle"
  /\ phase' = "unmounted"
  /\ output' = Undefined
  /\ closure' = Undefined
  /\ deps' = Undefined
  /\ runEffect' = FALSE
  /\ calls' = [i \in 1..Len(calls) |->
                 IF calls[i].status = "pending"
                   THEN [calls[i] EXCEPT !.status = "rejected"] ELSE calls[i]]
  /\ UNCHANGED << options, variant, authState, loginFn, location, pc, renders,
                  visitCalls >>

\* The application unmounts the gate: the instance and its hooks are discarded
Unmount ==
  /\ phase = "mounted" /\ pc = "idle"
  /\ phase' = "unmounted"
  /\ output' = Undefined
  /\ closure' = Undefined
  /\ deps' = Undefined
  /\ runEffect' = FALSE
  /\ UNCHANGED << options, variant, authState, loginFn, location, pc, renders, calls,
                  visitCalls >>

Next ==
  \/ \E p \in PropsSet : Mount(p)
  \/ \E p \in PropsSet : Rerender(p)
  \/ Effect
  \/ \E s \in AuthStates : AuthChange(s)
  \/ LoginFnChange
  \/ \E l \in Locations : Navigate(l)
  \/ SetPopupFlag
  \/ SetReturnTo
  \/ \E i \in 1..MaxRenders, outcome \in { "resolved", "rejected" } : Settle(i, outcome)
  \/ Unmount

Spec == Init /\ [][Next]_vars

----------------------------------------------------------------------------
\* What the claims speak of

Mounted == phase = "mounted"

\* The gate has rendered and the effect of its last render has run
Settled == phase = "mounted" /\ pc = "idle"

\* The application has not rewritten returnTo since wrapping
ConfigurationAsWrapped == options.returnTo # RewrittenReturnTo

\* The client function of the gate's mode
LoginOfMode == IF variant = "Popup" THEN "loginWithPopup" ELSE "loginWithRedirect"

LastCall == calls[Len(calls)]

\* A login call is issued in this step
Fires == Len(calls') = Len(calls) + 1

\* The configured loginOptions, an empty object when none was configured
ConfiguredLoginOptions ==
  IF options.loginOptions = Undefined THEN EmptyObject ELSE options.loginOptions

\* The caller-supplied loginOptions.appState, empty if absent
ConfiguredAppState ==
  IF "appState" \in DOMAIN ConfiguredLoginOptions
    THEN ConfiguredLoginOptions.appState ELSE EmptyObject

\* resolve(returnTo) when window.location is loc, case by case
ExpectedReturnTo(loc) ==
  CASE options.returnTo = Undefined -> Str(loc.pathname \o loc.search)
    [] options.returnTo = FnConstFoo -> Str("/foo")
    [] options.returnTo = FnPathname -> Str(loc.pathname)
    [] OTHER -> options.returnTo

\* What onRedirecting() returns for the configuration
ExpectedPlaceholder ==
  IF options.onRedirecting = Undefined THEN EmptyFragment ELSE RedirectingElement

----------------------------------------------------------------------------
\* C1: in both modes no login call is ever issued at a step where the observed
\* AuthState is Loading: a step that issues a call is taken with the AuthState
\* not Loading, and every call on record was issued by a render that did not
\* observe Loading.
C1_NoLoginWhileLoading ==
  [][Fires => /\ authState # "Loading"
              /\ ~closure.isLoading
              /\ calls'[Len(calls')].observed # "Loading"]_vars

\* C1 witness: a gate with default loginOptions rendered twice while Loading
\* (its effect ran both times) and no call was issued
C1_Witness ==
  /\ Settled /\ authState = "Loading" /\ renders >= 2
  /\ options.loginOptions = Undefined
  /\ calls = << >>

\* C2: whenever the observed AuthState is Authenticated, the gate (in either
\* mode) renders the wrapped component with exactly the props it was given, and
\* no login call is issued while the state is Authenticated.
C2_AuthenticatedRendersComponent ==
  /\ Mounted /\ authState = "Authenticated" =>
       /\ output = [kind |-> "element", type |-> "Component", props |-> closure.props]
       /\ visitCalls = 0
  /\ \A i \in 1..Len(calls) : calls[i].observed # "Authenticated"

\* C2 witness: after a login call the state became Authenticated and the
\* wrapped component shows with the props of the last render
C2_Witness ==
  /\ Settled /\ authState = "Authenticated" /\ Len(calls) >= 1
  /\ closure.props = [title |-> Str("b")]
  /\ output = ComponentElement([title |-> Str("b")])

\* C3: the wrapped component is rendered only if the observed AuthState is
\* Authenticated; in Loading and in Unauthenticated (a login call pending or
\* failed included) it is not rendered.
C3_ComponentOnlyWhenAuthenticated ==
  (output # Undefined /\ output.type = "Component") => authState = "Authenticated"

\* C3 witness: Unauthenticated, the login call was rejected, and the gate shows
\* its placeholder
C3_Witness ==
  /\ Settled /\ authState = "Unauthenticated"
  /\ \E i \in 1..Len(calls) : calls[i].status = "rejected"
  /\ output.type # "Component"

\* C4 (as claimed): with the configuration object unchanged and the login
\* function reference stable, at most one login call is issued between two
\* changes of the AuthState, however often the gate re-renders.
C4_AtMostOneLoginPerVisit == (loginFn = 1 /\ ConfigurationAsWrapped) => visitCalls <= 1

\* C5: for a mounted gate, every entry into Unauthenticated is followed by a
\* login call of the gate's mode before the state changes again: once the
\* effect of the render that observed Unauthenticated has run (and the state
\* cannot change before it has), a call of this visit is on record.
C5_LoginAfterEveryEntry ==
  Settled /\ authState = "Unauthenticated" =>
    /\ visitCalls >= 1
    /\ LastCall.fn = LoginOfMode
    /\ LastCall.observed = "Unauthenticated"

\* C5 witness: the trigger re-armed: with configured loginOptions and a stable
\* login function, a second call was issued after a visit to Authenticated
C5_Witness ==
  /\ Settled /\ authState = "Unauthenticated"
  /\ options.loginOptions # Undefined /\ loginFn = 1
  /\ Len(calls) >= 2 /\ visitCalls = 1

\* C6: in Redirect mode the single argument of every redirect-login call is the
\* configured loginOptions with every top-level field but appState unchanged,
\* and appState the caller's appState (empty if absent) with only returnTo
\* added or overwritten with resolve(returnTo).
C6_RedirectOptionsMerged ==
  [][Fires /\ variant = "Redirect" =>
       LET call == calls'[Len(calls')]
           o == call.args[1]
       IN  /\ call.fn = "loginWithRedirect"
           /\ Len(call.args) = 1
           /\ DOMAIN o = DOMAIN ConfiguredLoginOptions \cup { "appState" }
           /\ \A k \in DOMAIN ConfiguredLoginOptions \ { "appState" } :
                o[k] = ConfiguredLoginOptions[k]
           /\ DOMAIN o.appState = DOMAIN ConfiguredAppState \cup { "returnTo" }
           /\ \A k \in DOMAIN ConfiguredAppState \ { "returnTo" } :
                o.appState[k] = ConfiguredAppState[k]
           /\ o.appState.returnTo = ExpectedReturnTo(location)]_vars

\* C6 witness: scope and appState.foo were kept and appState.returnTo "/old"
\* was overwritten with the configured "/baz"
C6_Witness ==
  \E i \in 1..Len(calls) :
    /\ calls[i].fn = "loginWithRedirect"
    /\ calls[i].args[1] =
         [scope |-> Str("__test_scope__"),
          appState |-> [foo |-> Str("bar"), returnTo |-> Str("/baz")]]

\* C7: in Popup mode every popup-login call gets two positional arguments, the
\* configured loginOptions (an empty object when none) and the configured
\* popupOptions, both unmodified: no appState or returnTo is injected.
C7_PopupArgumentsUnmodified ==
  \A i \in 1..Len(calls) :
    calls[i].fn = "loginWithPopup" =>
      /\ Len(calls[i].args) = 2
      /\ calls[i].args[1] = ConfiguredLoginOptions
      /\ calls[i].args[2] = options.popupOptions

\* C7 witness: a popup-login call with configured loginOptions and popupOptions
C7_Witness ==
  \E i \in 1..Len(calls) :
    /\ calls[i].fn = "loginWithPopup"
    /\ calls[i].args[1] =
         [scope |-> Str("__test_scope__"),
          appState |-> [foo |-> Str("bar"), returnTo |-> Str("/old")]]
    /\ calls[i].args[2] = [timeoutInSeconds |-> 50]

\* C8: the mode is chosen when the component is wrapped and is fixed: a gate
\* wrapped in Popup mode never issues a redirect-login call and a gate wrapped
\* in Redirect mode never a popup-login call, also when the popup flag of the
\* configuration object is changed after wrapping.
C8_ModeFixedAtWrap ==
  /\ \A i \in 1..Len(calls) : calls[i].fn = LoginOfMode
  /\ closure # Undefined => closure.variant = variant

\* C8 witness: the popup flag of a gate wrapped in Popup mode was deleted and
\* the gate issued a popup-login call
C8_Witness ==
  /\ Settled /\ variant = "Popup" /\ ~showPopup(options)
  /\ visitCalls >= 1
  /\ LastCall.fn = "loginWithPopup"

\* C9: in Redirect mode returnTo is resolved when the login action fires: a
\* function-valued returnTo (the default included, which gives the current
\* path plus query) is called then, so the value sent reflects window.location
\* at that moment; a string returnTo is used as it is.
C9_ReturnToResolvedWhenFired ==
  [][Fires /\ variant = "Redirect" =>
       LET sent == calls'[Len(calls')].args[1].appState.returnTo
       IN  /\ sent = ExpectedReturnTo(location)
           /\ options.returnTo = Undefined =>
                sent = Str(location.pathname \o location.search)
           /\ options.returnTo = Str("/baz") => sent = Str("/baz")]_vars

\* C9 witness: the default returnTo sent the path and query the user had
\* navigated to after the component was wrapped
C9_Witness ==
  /\ Settled /\ variant = "Redirect" /\ options.returnTo = Undefined
  /\ location # WrapLocation
  /\ visitCalls >= 1
  /\ LastCall.args[1].appState.returnTo = Str("/profile?tab=1")

\* C10: in Redirect mode the gate's output is the result of onRedirecting()
\* (nothing by default) in exactly the states Loading and Unauthenticated; in
\* Authenticated the placeholder is not shown, the wrapped component is, and no
\* redirect-login call is made.
C10_PlaceholderExactlyWhenGating ==
  Mounted /\ variant = "Redirect" =>
    /\ authState \in { "Loading", "Unauthenticated" } <=> output = ExpectedPlaceholder
    /\ authState = "Authenticated" =>
         /\ output.type = "Component"
         /\ visitCalls = 0

\* C10 witness: a gate with a custom onRedirecting went from Loading to
\* Authenticated: the wrapped component shows and no call was ever made
C10_Witness ==
  /\ Settled /\ variant = "Redirect"
  /\ options.onRedirecting = CustomOnRedirecting
  /\ authState = "Authenticated" /\ renders >= 2
  /\ output.type = "Component"
  /\ calls = << >>

\* C11: a mounted Popup gate renders the empty fragment in every state where
\* the AuthState is Unauthenticated: right after the render, before the effect
\* has called loginWithPopup, and as long as the call is pending or settled
\* without a state change; once the AuthState is Authenticated (the re-render
\* is part of the state change) it renders the wrapped component.
C11_PopupNothingUntilAuthenticated ==
  (Mounted /\ variant = "Popup") =>
    /\ authState = "Unauthenticated" => output = EmptyFragment
    /\ authState = "Authenticated" => output = ComponentElement(closure.props)

\* C11 witness: the popup login of an Unauthenticated visit has resolved, the
\* state is Authenticated and the Popup gate shows the wrapped component
C11_Witness ==
  /\ Settled /\ variant = "Popup" /\ authState = "Authenticated"
  /\ Len(calls) = 1 /\ calls[1].fn = "loginWithPopup"
  /\ calls[1].observed = "Unauthenticated" /\ calls[1].status = "resolved"
  /\ output = ComponentElement(closure.props)

\* What a gate of either mode shows while it is gating
PlaceholderOfMode == IF variant = "Popup" THEN EmptyFragment ELSE ExpectedPlaceholder

\* A login call issued earlier changes its status in this step
SettleStep ==
  \E i \in 1..Len(calls) : i <= Len(calls') /\ calls'[i].status # calls[i].status

\* C12: the settling of a login call (resolved or rejected) is not acted on by
\* the gate: the step issues no login call, renders nothing anew and leaves
\* the hook state and the output as they were, so an Unauthenticated gate goes
\* on showing its placeholder; and a login call is only ever issued by the
\* effect of a render whose dependencies changed, never as a retry of a
\* failed, pending or ineffective call.
C12_NoLocalRecovery ==
  [][ /\ SettleStep =>
           /\ Len(calls') = Len(calls)
           /\ UNCHANGED << pc, closure, deps, runEffect, renders, output, visitCalls >>
           /\ (Mounted /\ authState = "Unauthenticated") => output' = PlaceholderOfMode
      /\ Fires => (pc = "effect" /\ runEffect /\ ~SettleStep) ]_vars

\* C12 witness: the one login call of an Unauthenticated visit was rejected,
\* the gate has been re-rendered since mounting, has issued no other call and
\* shows the placeholder
C12_Witness ==
  /\ Settled /\ authState = "Unauthenticated"
  /\ Len(calls) = 1 /\ calls[1].status = "rejected" /\ visitCalls = 1
  /\ renders > 1
  /\ output = PlaceholderOfMode

\* This step is a render of an instance that has rendered before
ReRenderStep == closure # Undefined /\ closure' # Undefined /\ renders' = renders + 1

\* The AuthState, the login function reference and loginOptions seen by this
\* render differ in identity from those of the previous render
AuthStateChanged == ObservedOf(closure') # ObservedOf(closure)
LoginFnChanged == closure'.login # closure.login
LoginOptionsChanged == closure'.loginOptions.id # closure.loginOptions.id

\* The configured returnTo read by this render is not the one read by the
\* previous render (the configuration is only rewritten together with a render)
ReturnToChanged == options'.returnTo # options.returnTo

\* The effect of the last render runs in this step, with the trigger condition
\* re-evaluated and the render having observed Unauthenticated
ReEvaluatedUnauthenticated ==
  /\ pc = "effect" /\ pc' = "idle"
  /\ runEffect /\ ObservedOf(closure) = "Unauthenticated"

\* The call issued in this step is built from the values of the last render
BuiltFromRender ==
  LET call == calls'[Len(calls')]
  IN  /\ Fires
      /\ call.fn = LoginOfMode
      /\ IF variant = "Popup"
            THEN call.args[1] = closure.loginOptions.obj
            ELSE /\ \A k \in DOMAIN closure.loginOptions.obj \ { "appState" } :
                      call.args[1][k] = closure.loginOptions.obj[k]
                 /\ call.args[1].appState.returnTo = ResolveReturnTo(closure.returnTo, location)

\* C13 (as claimed): in either mode a re-render re-evaluates the trigger
\* condition whenever the AuthState, the login function reference,
\* loginOptions or returnTo changed identity since the previous render, and a
\* re-evaluation that finds Unauthenticated issues a login call built from
\* the values of that render.
C13_ReEvaluatedOnAnyChange ==
  [][ /\ ReRenderStep =>
           ((AuthStateChanged \/ LoginFnChanged \/ LoginOptionsChanged \/ ReturnToChanged)
              => runEffect')
      /\ ReEvaluatedUnauthenticated => BuiltFromRender ]_vars

\* C13 (amended): a re-render re-evaluates the trigger condition exactly when
\* the AuthState, the login function reference or loginOptions changed
\* identity since the previous render, or, in Redirect mode only, returnTo
\* did; a re-evaluation that finds Unauthenticated issues a login call built
\* from the values of that render.
C13_ReEvaluatedOnDependencyChange ==
  [][ /\ ReRenderStep =>
           (runEffect' <=> \/ AuthStateChanged \/ LoginFnChanged \/ LoginOptionsChanged
                           \/ (variant = "Redirect" /\ ReturnToChanged))
      /\ ReEvaluatedUnauthenticated => BuiltFromRender ]_vars

\* C13 witness: a Redirect gate with configured loginOptions and a stable
\* login function was re-rendered with a rewritten returnTo while
\* Unauthenticated, and issued a second call that carries the new returnTo
C13_Witness ==
  /\ Settled /\ variant = "Redirect" /\ authState = "Unauthenticated"
  /\ loginFn = 1 /\ options.loginOptions # Undefined
  /\ options.returnTo = RewrittenReturnTo
  /\ visitCalls > 1
  /\ calls[1].args[1].appState.returnTo # RewrittenReturnTo
  /\ LastCall.args[1].appState.returnTo = RewrittenReturnTo

\* The login calls issued since the AuthState last changed
VisitCallIndices == (Len(calls) - visitCalls + 1) .. Len(calls)

\* Those of them that the client has not settled
PendingOfVisit == { i \in VisitCallIndices : calls[i].status = "pending" }

\* C14 (as claimed): while the state stays Unauthenticated, with the login
\* function reference stable and the configuration as wrapped, the gate has
\* at most one unsettled login call: it issues no second call while an
\* earlier one of the same visit is pending.
C14_AtMostOnePending ==
  (authState = "Unauthenticated" /\ loginFn = 1 /\ ConfigurationAsWrapped)
    => Cardinality(PendingOfVisit) <= 1

\* C15: no step of the gate cancels a login call. A call once issued keeps
\* its function and arguments; its status changes only from pending, and only
\* in a step of the client in which the gate neither renders, unmounts nor is
\* reconfigured; every other step (unmount, re-render, rewritten
\* configuration) leaves it pending. After unmount no step issues a login
\* call or renders, whatever the client settles.
C15_NoCancellation ==
  [][ /\ Len(calls') >= Len(calls)
      /\ \A i \in 1..Len(calls) :
           /\ calls'[i].fn = calls[i].fn /\ calls'[i].args = calls[i].args
           /\ calls'[i].status # calls[i].status =>
                /\ calls[i].status = "pending"
                /\ calls'[i].status \in { "resolved", "rejected" }
                /\ UNCHANGED << phase, renders, closure, options >>
      /\ phase = "unmounted" =>
           /\ Len(calls') = Len(calls)
           /\ UNCHANGED << phase, renders, output, closure >> ]_vars

\* C15 witness: the gate was re-rendered with a rewritten returnTo and then
\* unmounted; of its login calls one is still pending and one was settled
C15_Witness ==
  /\ phase = "unmounted" /\ options.returnTo = RewrittenReturnTo
  /\ output = Undefined
  /\ \E i \in 1..Len(calls) : calls[i].status = "pending"
  /\ \E i \in 1..Len(calls) : calls[i].status = "resolved"

\* C16: every observable of a step of a Popup gate is given by an expression
\* in which the configured returnTo and onRedirecting do not occur, so two
\* Popup gates that differ only in these two options and see the same
\* AuthStates, login functions, props and renders stay in step: the output of
\* a render is the wrapped component or the empty fragment by the AuthState
\* alone; whether the effect runs is decided by the AuthState, the login
\* function and loginOptions alone; the effect issues a call exactly when it
\* runs on Unauthenticated; the call is loginWithPopup(loginOptions,
\* popupOptions); and the render keeps no returnTo to evaluate.
C16_PopupIgnoresReturnToAndOnRedirecting ==
  [][ variant = "Popup" =>
        /\ renders' = renders + 1 =>
             /\ output' = IF authState' = "Authenticated"
                            THEN ComponentElement(closure'.props) ELSE EmptyFragment
             /\ runEffect' = \/ closure = Undefined
                             \/ AuthStateChanged \/ LoginFnChanged \/ LoginOptionsChanged
             /\ "returnTo" \notin DOMAIN closure'
             /\ "onRedirecting" \notin DOMAIN closure'
        /\ Fires <=> (Mounted /\ pc = "effect" /\ pc' = "idle" /\ runEffect
                        /\ authState = "Unauthenticated")
        /\ Fires => calls'[Len(calls')] =
                       [ fn |-> "loginWithPopup",
                         args |-> << ConfiguredLoginOptions, options.popupOptions >>,
                         status |-> "pending", observed |-> "Unauthenticated" ] ]_vars

\* C16 witness: a Popup gate configured with onRedirecting and a returnTo that
\* was later rewritten, re-rendered while Unauthenticated: it shows the empty
\* fragment and made the one call loginWithPopup(loginOptions, undefined)
C16_Witness ==
  /\ Settled /\ variant = "Popup" /\ authState = "Unauthenticated"
  /\ options.onRedirecting = CustomOnRedirecting
  /\ options.returnTo = RewrittenReturnTo
  /\ options.loginOptions # Undefined
  /\ renders > 1 /\ Len(calls) = 1
  /\ calls[1].args = << options.loginOptions, Undefined >>
  /\ output = EmptyFragment

\* C17: building the argument of a login call writes nothing into the
\* configuration: the step that issues a call leaves the configuration object
\* as it was, the caller's loginOptions (its appState included) is the same
\* value in every state of a run, and every redirect-login call issued so
\* far, later ones included, carries exactly the caller's own appState fields
\* next to the returnTo put in for that call.
C17_ConfigurationNotWritten ==
  [][ /\ Fires => options' = options
      /\ options'.loginOptions = options.loginOptions
      /\ \A i \in 1..Len(calls') :
           calls'[i].fn = "loginWithRedirect" =>
             /\ DOMAIN calls'[i].args[1].appState
                  = DOMAIN ConfiguredAppState \cup { "returnTo" }
             /\ \A k \in DOMAIN ConfiguredAppState \ { "returnTo" } :
                  calls'[i].args[1].appState[k] = ConfiguredAppState[k] ]_vars

\* C17 witness: a Redirect gate whose caller's appState has returnTo "/old"
\* issued two calls with two different returnTo values put in, and the
\* caller's appState still has returnTo "/old"
C17_Witness ==
  /\ variant = "Redirect" /\ Len(calls) > 1
  /\ ConfiguredAppState = [foo |-> Str("bar"), returnTo |-> Str("/old")]
  /\ calls[1].args[1].appState.returnTo # Str("/old")
  /\ LastCall.args[1].appState.returnTo # Str("/old")
  /\ LastCall.args[1].appState.returnTo # calls[1].args[1].appState.returnTo

\* C18: with loginOptions and returnTo both supplied in the configuration and
\* not rewritten, and the login function reference stable, at most one login
\* call is issued between two changes of the AuthState, however often the gate
\* re-renders in between.
C18_OneCallPerVisitWhenConfigured ==
  ( /\ options.loginOptions # Undefined
    /\ options.returnTo # Undefined /\ ConfigurationAsWrapped
    /\ loginFn = 1 )
    => visitCalls <= 1

\* C18 witness: such a gate has used up its renders while Unauthenticated,
\* re-rendered after its call, and has issued the one call only
C18_Witness ==
  /\ Settled /\ authState = "Unauthenticated"
  /\ options.loginOptions # Undefined /\ options.returnTo = Str("/baz")
  /\ loginFn = 1
  /\ renders = MaxRenders /\ closure.loginOptions.id = 0
  /\ Len(calls) = 1 /\ visitCalls = 1
  /\ calls[1].observed = "Unauthenticated" /\ calls[1].status = "pending"

====
